---------------------------- MODULE Spec2Model ----------------------------
(***************************************************************************)
(* A model of jira-dependency-graph.py: main's loop over the seed issue    *)
(* keys, build_graph_data with its recursive walk (an explicit call stack  *)
(* here), process_link, create_node_label, filter_duplicates and the       *)
(* hand-over to print_graph / create_graph_image.                          *)
(*                                                                         *)
(* Strings are TLA+ strings; Python's substring test (a in b), slicing,    *)
(* replace and string comparison are computed character by character.      *)
(* The tracker behind JiraSearch is the variable jira: what get_issue and  *)
(* query answer for each key.  It does not change during a run.            *)
(***************************************************************************)
EXTENDS Naturals, Sequences, FiniteSets, TLC

VARIABLES
    options,     \* parse_args(): the run configuration and the seed keys
    jira,        \* the tracker's content: issue records and "Epic Link" children
    pc,          \* main's position: "main", "walk", "children", "render", "done", "raised"
    i,           \* main's loop index into options.issues (1-based)
    graph,       \* main's graph list
    seen,        \* build_graph_data's seen list (one per call of build_graph_data)
    walk_graph,  \* the graph list threaded through walk within one build_graph_data
    stack,       \* the frames of walk on the call stack, innermost last
    arg,         \* the issue_key of the walk call being entered
    fetched,     \* the keys get_issue was called with, in order ('Fetching' log lines)
    queried,     \* the keys jira.query was called for, in order ('Querying' log lines)
    output,      \* what the renderer was invoked with: <<>> (not invoked) or <<list>>
    error        \* <<>>, or <<kind, key>> of the exception that ended the run

vars == <<options, jira, pc, i, graph, seen, walk_graph, stack, arg,
          fetched, queried, output, error>>

-----------------------------------------------------------------------------
(* Bounds of the model.                                                    *)

\* the number of relation entries (epic children, subtasks, links) of the tracker
MaxRelations == 3
\* the number of seed keys on the command line
MaxSeeds == 2
\* the number of relation entries of the tracker in the runs with several seeds
MaxSeedRelations == 2
\* the length of the statement lists filter_duplicates is applied to on its own
MaxStatements == 4
\* the number of links of the tracker in the runs over the link options
MaxLinks == 2
\* the number of relation entries of the tracker in the runs over the status names
MaxStatusRelations == 2
\* the length of the longest summary in the runs over the summaries
MaxSummary == 35
\* the number of relation entries of the tracker in the runs over the summaries
MaxLabelRelations == 1
\* the number of links of the tracker in the runs over the link type names
MaxTypedLinks == 2
\* the number of relation entries of the tracker in the runs over four issues
MaxOrderRelations == 3
\* the number of relation entries of the tracker in the runs over the epics
MaxEpicRelations == 2
\* the number of relation entries of the tracker in the runs over closed
\* issues and links without edges
MaxReachRelations == 2

-----------------------------------------------------------------------------
(* Python strings.                                                         *)

\* the characters the program's strings are made of here, in ASCII order
Alphabet == " \"(),-.0123456789=>ABCDEFGHIJKLMNOPQRSTUVWXYZ[\\]abcdefghijklmnopqrstuvwxyz"

Ord(c) == CHOOSE n \in 1..Len(Alphabet) : SubSeq(Alphabet, n, n) = c

\* Python's  a in b  for strings: a is a contiguous substring of b
IsSubstring(a, b) ==
    \E n \in 0..Len(b) : n + Len(a) <= Len(b) /\ SubSeq(b, n + 1, n + Len(a)) = a

\* Python's  a < b  for strings: lexicographic by character code
RECURSIVE StrLess(_, _)
StrLess(a, b) ==
    IF b = "" THEN FALSE
    ELSE IF a = "" THEN TRUE
    ELSE IF Head(a) = Head(b) THEN StrLess(Tail(a), Tail(b))
    ELSE Ord(Head(a)) < Ord(Head(b))

\* Python's  s.replace('"', '\\"')
RECURSIVE EscapeQuotes(_)
EscapeQuotes(s) ==
    IF s = "" THEN ""
    ELSE (IF Head(s) = "\"" THEN "\\\"" ELSE Head(s)) \o EscapeQuotes(Tail(s))

-----------------------------------------------------------------------------
(* The label formatter and the link classifier (closures of                *)
(* build_graph_data; the run configuration they close over is options).    *)

MAX_SUMMARY_LENGTH == 30

\* get_key(issue)
GetKey(issue) == issue.key

\* The status text of a closed issue; the closed checks test  name in 'Closed'.
ClosedText == "Closed"

\* variant: the comparison is >= instead of >
CreateNodeLabelFromMargin(issue_key, fields) ==
    LET summary == IF Len(fields.summary) >= MAX_SUMMARY_LENGTH + 2
                   THEN SubSeq(fields.summary, 1, MAX_SUMMARY_LENGTH) \o "..."
                   ELSE fields.summary
        short_summary == EscapeQuotes(summary)
    IN  issue_key \o " (" \o short_summary \o ")"

\* create_node_label(issue_key, fields), options.jq empty (the default mode)
CreateNodeLabel(issue_key, fields) ==
    LET summary == IF Len(fields.summary) > MAX_SUMMARY_LENGTH + 2
                   THEN SubSeq(fields.summary, 1, MAX_SUMMARY_LENGTH) \o "..."
                   ELSE fields.summary
        short_summary == EscapeQuotes(summary)
    IN  issue_key \o " (" \o short_summary \o ")"

\* '"{}" [label="{}"]'.format(issue_key, create_node_label(issue_key, fields))
NodeStatement(issue_key, fields) ==
    "\"" \o issue_key \o "\" [label=\"" \o CreateNodeLabel(issue_key, fields) \o "\"]"

\* '{}->{}[color=orange]'.format(issue_key, subtask_key)
EpicStatement(issue_key, subtask_key) ==
    issue_key \o "->" \o subtask_key \o "[color=orange]"

\* '{}->{}[color=blue][label="subtask"]'.format(issue_key, subtask_key)
SubtaskStatement(issue_key, subtask_key) ==
    issue_key \o "->" \o subtask_key \o "[color=blue][label=\"subtask\"]"

\* variant: every link type with  blocks  in its name is highlighted
LinkExtraContains(link_type) ==
    IF IsSubstring("blocks", link_type) THEN ",color=\"red\"" ELSE ""

\* extra = "" ; if link_type == "blocks": extra = ',color="red"'
LinkExtra(link_type) == IF link_type = "blocks" THEN ",color=\"red\"" ELSE ""

\* '"{}"->"{}"[label="{}"{}]'.format(issue_key, linked_issue_key, link_type, extra)
LinkStatement(issue_key, linked_issue_key, link_type, extra) ==
    "\"" \o issue_key \o "\"->\"" \o linked_issue_key \o "\"[label=\""
         \o link_type \o "\"" \o extra \o "]"

\* link.has_key(side) / side in link
HasKey(link, side) == side \in DOMAIN link

\* variant: only the inward side is checked
LinkClosedInwardOnly(link) ==
    HasKey(link, "inwardIssue") /\ IsSubstring(link.inwardIssue.status, ClosedText)

\* the closed check of process_link: either side's status name  in 'Closed'
LinkClosed(link) ==
    \/ HasKey(link, "inwardIssue")  /\ IsSubstring(link.inwardIssue.status, ClosedText)
    \/ HasKey(link, "outwardIssue") /\ IsSubstring(link.outwardIssue.status, ClosedText)

\* variant: the operands of  in  the other way round
NotIncludedReversed(includes, linked_issue_key) == ~IsSubstring(linked_issue_key, includes)

\* the include check of process_link:  includes not in linked_issue_key
NotIncluded(includes, linked_issue_key) == ~IsSubstring(includes, linked_issue_key)

\* variant: a link of an excluded type is dropped like a filtered one
ProcessLinkExcludedDropped(issue_key, link) ==
    IF ~HasKey(link, "outwardIssue") /\ ~HasKey(link, "inwardIssue") THEN <<>>
    ELSE
    LET direction == IF HasKey(link, "outwardIssue") THEN "outward" ELSE "inward"
        linked_issue_key == GetKey(link[direction \o "Issue"])
        link_type == link.type[direction]
    IN  IF direction \notin options.directions THEN <<>>
        ELSE IF options.closed /\ LinkClosed(link) THEN <<>>
        ELSE IF NotIncluded(options.includes, linked_issue_key) THEN <<>>
        ELSE IF link_type \in options.excludes THEN <<>>
        ELSE IF direction \notin options.show_directions THEN <<linked_issue_key, <<>> >>
        ELSE <<linked_issue_key,
               <<LinkStatement(issue_key, linked_issue_key, link_type, LinkExtra(link_type))>> >>

\* variant: a link whose direction is not rendered is dropped like one whose
\* direction is not walked
ProcessLinkUnrenderedDropped(issue_key, link) ==
    IF ~HasKey(link, "outwardIssue") /\ ~HasKey(link, "inwardIssue") THEN <<>>
    ELSE
    LET direction == IF HasKey(link, "outwardIssue") THEN "outward" ELSE "inward"
        linked_issue_key == GetKey(link[direction \o "Issue"])
        link_type == link.type[direction]
    IN  IF direction \notin options.directions THEN <<>>
        ELSE IF options.closed /\ LinkClosed(link) THEN <<>>
        ELSE IF NotIncluded(options.includes, linked_issue_key) THEN <<>>
        ELSE IF link_type \in options.excludes THEN <<linked_issue_key, <<>> >>
        ELSE IF direction \notin options.show_directions THEN <<>>
        ELSE <<linked_issue_key,
               <<LinkStatement(issue_key, linked_issue_key, link_type, LinkExtra(link_type))>> >>

\* process_link(fields, issue_key, link).  The result is <<>> for None and
\* <<linked_issue_key, node>> otherwise, node being <<>> for None and
\* <<statement>> for an Edge Statement.
ProcessLink(issue_key, link) ==
    IF ~HasKey(link, "outwardIssue") /\ ~HasKey(link, "inwardIssue") THEN <<>>
    ELSE
    LET direction == IF HasKey(link, "outwardIssue") THEN "outward" ELSE "inward"
        linked_issue_key == GetKey(link[direction \o "Issue"])
        link_type == link.type[direction]
    IN  IF direction \notin options.directions THEN <<>>
        ELSE IF options.closed /\ LinkClosed(link) THEN <<>>
        ELSE IF NotIncluded(options.includes, linked_issue_key) THEN <<>>
        ELSE IF link_type \in options.excludes THEN <<linked_issue_key, <<>> >>
        ELSE IF direction \notin options.show_directions THEN <<linked_issue_key, <<>> >>
        ELSE <<linked_issue_key,
               <<LinkStatement(issue_key, linked_issue_key, link_type, LinkExtra(link_type))>> >>

-----------------------------------------------------------------------------
(* walk's processing of one fetched issue, between get_issue's return and  *)
(* the loop over the children.                                             *)

\* variant: walk makes no closed check
IssueClosedUnchecked(fields) == FALSE

\* the closed check of walk:  issue['fields']['status']['name'] in 'Closed'
IssueClosed(fields) == options.closed /\ IsSubstring(fields.status, ClosedText)

\* variant: the query is issued whatever ignore_epic is
QueriesEpicAlways(fields) == fields.issuetype = "Epic"

\* whether walk issues the "Epic Link" query for the issue
QueriesEpic(fields) == fields.issuetype = "Epic" /\ ~options.ignore_epic

\* the issues the query returns, <<>> when it is not issued
EpicIssues(issue_key, fields) ==
    IF QueriesEpic(fields) THEN jira.epic_link[issue_key] ELSE <<>>

\* the results of process_link over fields['issuelinks'], None results dropped
LinkResults(issue_key, fields) ==
    LET all == [n \in 1..Len(fields.issuelinks) |->
                    ProcessLink(issue_key, fields.issuelinks[n])]
    IN  SelectSeq(all, LAMBDA result : result # <<>>)

RECURSIVE Flatten(_)
Flatten(seqs) == IF seqs = <<>> THEN <<>> ELSE Head(seqs) \o Flatten(Tail(seqs))

\* variant: the Node Statement is appended after the edges
WalkStatementsNodeLast(issue_key, fields) ==
    LET issues == EpicIssues(issue_key, fields)
        results == LinkResults(issue_key, fields)
    IN  [n \in 1..Len(issues) |-> EpicStatement(issue_key, GetKey(issues[n]))]
        \o [n \in 1..Len(fields.subtasks) |->
                SubtaskStatement(issue_key, GetKey(fields.subtasks[n]))]
        \o Flatten([n \in 1..Len(results) |-> results[n][2]])
        \o <<NodeStatement(issue_key, fields)>>

\* the statements walk appends to graph for the issue, in order
WalkStatements(issue_key, fields) ==
    LET issues == EpicIssues(issue_key, fields)
        results == LinkResults(issue_key, fields)
    IN  <<NodeStatement(issue_key, fields)>>
        \o [n \in 1..Len(issues) |-> EpicStatement(issue_key, GetKey(issues[n]))]
        \o [n \in 1..Len(fields.subtasks) |->
                SubtaskStatement(issue_key, GetKey(fields.subtasks[n]))]
        \o Flatten([n \in 1..Len(results) |-> results[n][2]])

\* variant: a link result without an Edge Statement gives no child
WalkChildrenOfEdges(issue_key, fields) ==
    LET issues == EpicIssues(issue_key, fields)
        results == SelectSeq(LinkResults(issue_key, fields),
                             LAMBDA result : result[2] # <<>>)
    IN  [n \in 1..Len(issues) |-> GetKey(issues[n])]
        \o [n \in 1..Len(fields.subtasks) |-> GetKey(fields.subtasks[n])]
        \o [n \in 1..Len(results) |-> results[n][1]]

\* the children list walk builds for the issue, in order
WalkChildren(issue_key, fields) ==
    LET issues == EpicIssues(issue_key, fields)
        results == LinkResults(issue_key, fields)
    IN  [n \in 1..Len(issues) |-> GetKey(issues[n])]
        \o [n \in 1..Len(fields.subtasks) |-> GetKey(fields.subtasks[n])]
        \o [n \in 1..Len(results) |-> results[n][1]]

-----------------------------------------------------------------------------
(* filter_duplicates.                                                      *)

\* enumerate(lst): the pairs <<index, value>>, indices from 0
Enumerate(lst) == [n \in 1..Len(lst) |-> <<n - 1, lst[n]>>]

\* the order sorted() compares by: with key=lambda (i, val): val the values,
\* without a key the tuples (i, val) themselves
ItemLess(a, b, by_val) ==
    IF by_val THEN StrLess(a[2], b[2])
    ELSE a[1] < b[1] \/ (a[1] = b[1] /\ StrLess(a[2], b[2]))

\* one insertion of a stable sort: item goes after every element not greater
RECURSIVE InsertSorted(_, _, _)
InsertSorted(sorted, item, by_val) ==
    IF sorted = <<>> THEN <<item>>
    ELSE IF ItemLess(item, Head(sorted), by_val) THEN <<item>> \o sorted
    ELSE <<Head(sorted)>> \o InsertSorted(Tail(sorted), item, by_val)

\* Python's sorted(): a stable sort
RECURSIVE Sorted(_, _)
Sorted(lst, by_val) ==
    IF lst = <<>> THEN <<>>
    ELSE InsertSorted(Sorted(SubSeq(lst, 1, Len(lst) - 1), by_val), lst[Len(lst)], by_val)

\* append_unique(acc, item)
AppendUnique(acc, item) ==
    IF acc[Len(acc)][2] = item[2] THEN acc ELSE Append(acc, item)

\* reduce(append_unique, items, acc)
RECURSIVE Reduce(_, _)
Reduce(items, acc) ==
    IF items = <<>> THEN acc ELSE Reduce(Tail(items), AppendUnique(acc, Head(items)))

\* variant: the order of the list is not restored after the reduction
FilterDuplicatesUnrestored(lst) ==
    LET srt_enum == Sorted(Enumerate(lst), TRUE)
        kept == Reduce(srt_enum, <<srt_enum[1]>>)
    IN  [n \in 1..Len(kept) |-> kept[n][2]]

\* filter_duplicates(lst) for a non-empty lst (srt_enum[0] raises IndexError
\* for the empty one, see Render)
FilterDuplicates(lst) ==
    LET srt_enum == Sorted(Enumerate(lst), TRUE)
        kept == Sorted(Reduce(srt_enum, <<srt_enum[1]>>), FALSE)
    IN  [n \in 1..Len(kept) |-> kept[n][2]]

-----------------------------------------------------------------------------
(* The tracker's content, as JiraSearch.get_issue and JiraSearch.query     *)
(* return it.  It is given by a list of relation entries; the status name  *)
(* a link carries for its linked issue is that issue's status.             *)

Keys == {"JRA-1", "JRA-2", "DEV-1"}

Blocks  == [name |-> "Blocks", inward |-> "is blocked by", outward |-> "blocks"]
Relates == [name |-> "Relates", inward |-> "relates to", outward |-> "relates to"]

EpicRel(owner, target)    == [kind |-> "epic", owner |-> owner, target |-> target]
SubtaskRel(owner, target) == [kind |-> "subtask", owner |-> owner, target |-> target]
\* side is "outwardIssue", "inwardIssue" or "" (a link with neither side)
LinkRel(owner, target, side, type) ==
    [kind |-> "link", owner |-> owner, target |-> target, side |-> side, type |-> type]

\* one element of fields['issuelinks']
LinkOf(rel, status) ==
    LET linked == [key |-> rel.target, status |-> status[rel.target]]
    IN  IF rel.side = "outwardIssue" THEN [type |-> rel.type, outwardIssue |-> linked]
        ELSE IF rel.side = "inwardIssue" THEN [type |-> rel.type, inwardIssue |-> linked]
        ELSE [type |-> rel.type]

RelsOf(rels, owner, kind) ==
    SelectSeq(rels, LAMBDA rel : rel.owner = owner /\ rel.kind = kind)

\* what get_issue(key) returns: response.json()
IssueOf(key, rels, status, summary, epics) ==
    LET subs  == RelsOf(rels, key, "subtask")
        links == RelsOf(rels, key, "link")
    IN  [key |-> key,
         fields |-> [summary    |-> summary[key],
                     status     |-> status[key],
                     issuetype  |-> IF key \in epics THEN "Epic" ELSE "Story",
                     subtasks   |-> [n \in 1..Len(subs) |-> [key |-> subs[n].target]],
                     issuelinks |-> [n \in 1..Len(links) |-> LinkOf(links[n], status)]]]

\* what query('"Epic Link" = "<key>"') returns: content['issues']
EpicLinkOf(key, rels) ==
    LET children == RelsOf(rels, key, "epic")
    IN  [n \in 1..Len(children) |-> [key |-> children[n].target]]

Tracker(rels, status, summary, epics) ==
    [issue     |-> [key \in Keys |-> IssueOf(key, rels, status, summary, epics)],
     epic_link |-> [key \in Keys |-> EpicLinkOf(key, rels)]]

BoundedSeq(S, n) == UNION {[1..m -> S] : m \in 0..n}

Range(seq) == {seq[n] : n \in 1..Len(seq)}

\* the keys a walk from the keys of S can come to through the relation entries
RECURSIVE ReachFrom(_, _)
ReachFrom(S, rels) ==
    LET more == S \cup {rel.target : rel \in {r \in Range(rels) : r.owner \in S}}
    IN  IF more = S THEN S ELSE ReachFrom(more, rels)

\* parse_args(): the defaults, for the seed keys given
DefaultOptions(issues) ==
    [issues |-> issues, excludes |-> {}, show_directions |-> {"inward", "outward"},
     directions |-> {"inward", "outward"}, includes |-> "", closed |-> FALSE,
     ignore_epic |-> FALSE, jq |-> "", extra_jq |-> ""]

\* The state main starts the loop over options.issues in.  Relation entries
\* of issues no walk from the seeds can come to are left out: no run reads them.
InitWith(Options, Pool, max, Statuses, Summaries, Epics) ==
    /\ options \in Options
    /\ \E rels \in BoundedSeq(Pool, max), status \in Statuses,
          summary \in Summaries, extra \in Epics :
          /\ \A n \in 1..Len(rels) : rels[n].owner \in ReachFrom(Range(options.issues), rels)
          /\ jira = Tracker(rels, status, summary,
                            extra \cup {rel.owner : rel \in {r \in Range(rels) : r.kind = "epic"}})
    /\ pc = "main"
    /\ i = 1
    /\ graph = <<>>
    /\ seen = <<>>
    /\ walk_graph = <<>>
    /\ stack = <<>>
    /\ arg = ""
    /\ fetched = <<>>
    /\ queried = <<>>
    /\ output = <<>>
    /\ error = <<>>

-----------------------------------------------------------------------------
(* The actions.                                                            *)

\* main's loop body: build_graph_data(issue, ...) creates seen = [] and calls
\* walk(start_issue_key, [])
BuildGraphData ==
    /\ pc = "main"
    /\ i <= Len(options.issues)
    /\ seen' = <<>>
    /\ walk_graph' = <<>>
    /\ arg' = options.issues[i]
    /\ pc' = "walk"
    /\ UNCHANGED <<options, jira, i, graph, stack, fetched, queried, output, error>>

\* variant: the key is not recorded
MarkSeenForgotten(seen_list, issue_key) == seen_list

\* seen.append(issue_key)
MarkSeen(seen_list, issue_key) == Append(seen_list, issue_key)

\* walk(issue_key, graph) from its entry to the loop over the children, with
\* get_issue returning the issue.  A closed issue returns at once: its frame
\* has no children.
Walk ==
    /\ pc = "walk"
    /\ LET issue  == jira.issue[arg]
           fields == issue.fields
       IN  /\ fetched' = Append(fetched, arg)
           /\ seen' = MarkSeen(seen, arg)
           /\ IF IssueClosed(fields)
              THEN /\ stack' = Append(stack, [issue_key |-> arg, children |-> <<>>, next |-> 1])
                   /\ UNCHANGED <<walk_graph, queried>>
              ELSE /\ walk_graph' = walk_graph \o WalkStatements(arg, fields)
                   /\ queried' = IF QueriesEpic(fields) THEN Append(queried, arg) ELSE queried
                   /\ stack' = Append(stack, [issue_key |-> arg,
                                              children |-> WalkChildren(arg, fields),
                                              next |-> 1])
    /\ pc' = "children"
    /\ UNCHANGED <<options, jira, i, graph, arg, output, error>>

\* variant: the exception is caught in walk, which returns as for an issue
\* without children: the run goes on with what it has
GetIssueRaisesCaught ==
    /\ pc = "walk"
    /\ fetched' = Append(fetched, arg)
    /\ error' = <<"HTTPError", arg>>
    /\ stack' = Append(stack, [issue_key |-> arg, children |-> <<>>, next |-> 1])
    /\ pc' = "children"
    /\ UNCHANGED <<options, jira, i, graph, seen, walk_graph, arg, queried, output>>

\* get_issue raises: response.raise_for_status() (or the request itself).
\* Nothing catches it: the run ends.
GetIssueRaises ==
    /\ pc = "walk"
    /\ fetched' = Append(fetched, arg)
    /\ error' = <<"HTTPError", arg>>
    /\ pc' = "raised"
    /\ UNCHANGED <<options, jira, i, graph, seen, walk_graph, stack, arg, queried, output>>

\* variant: the children are taken from the end of the list
NextUnseenFromEnd(children, next, seen_list) ==
    LET unseen == {n \in next..Len(children) : children[n] \notin Range(seen_list)}
    IN  IF unseen = {} THEN 0 ELSE CHOOSE n \in unseen : \A m \in unseen : n >= m

\* the position in children of the next x the generator
\* (x for x in children if x not in seen) yields, from position next on; 0 if none
NextUnseen(children, next, seen_list) ==
    LET unseen == {n \in next..Len(children) : children[n] \notin Range(seen_list)}
    IN  IF unseen = {} THEN 0 ELSE CHOOSE n \in unseen : \A m \in unseen : n <= m

\* for child in (...): walk(child, graph)
Recurse ==
    /\ pc = "children"
    /\ LET frame == stack[Len(stack)]
           n == NextUnseen(frame.children, frame.next, seen)
       IN  /\ n # 0
           /\ arg' = frame.children[n]
           /\ stack' = [stack EXCEPT ![Len(stack)].next = n + 1]
    /\ pc' = "walk"
    /\ UNCHANGED <<options, jira, i, graph, seen, walk_graph, fetched, queried, output, error>>

\* return graph: the loop over the children is over.  The outermost walk
\* returns to build_graph_data and that to main:  graph = graph + ...
Return ==
    /\ pc = "children"
    /\ LET frame == stack[Len(stack)]
       IN  NextUnseen(frame.children, frame.next, seen) = 0
    /\ stack' = SubSeq(stack, 1, Len(stack) - 1)
    /\ IF Len(stack) = 1
       THEN /\ graph' = graph \o walk_graph
            /\ i' = i + 1
            /\ pc' = "main"
       ELSE UNCHANGED <<graph, i, pc>>
    /\ UNCHANGED <<options, jira, seen, walk_graph, arg, fetched, queried, output, error>>

\* after the loop: print_graph(filter_duplicates(graph)) or
\* create_graph_image(filter_duplicates(graph), ...); filter_duplicates raises
\* IndexError at srt_enum[0] for the empty list
Render ==
    /\ pc = "main"
    /\ i > Len(options.issues)
    /\ IF graph = <<>>
       THEN /\ error' = <<"IndexError", "">>
            /\ pc' = "raised"
            /\ UNCHANGED output
       ELSE /\ output' = <<FilterDuplicates(graph)>>
            /\ pc' = "done"
            /\ UNCHANGED error
    /\ UNCHANGED <<options, jira, i, graph, seen, walk_graph, stack, arg, fetched, queried>>

Next == BuildGraphData \/ Walk \/ GetIssueRaises \/ Recurse \/ Return \/ Render

-----------------------------------------------------------------------------------------------------------------------------------------------------
(* Specifications.  They share the actions and differ in the runs they     *)
(* start: the options, and the relation entries the tracker may hold.      *)

AllOpen == {[key \in Keys |-> "Open"]}
ShortSummaries == {[key \in Keys |-> "fix"]}

\* Spec: one seed, the default options.  Links (outward "relates to") between
\* any two keys, cycles and self links included; subtasks between any two
\* issues; epic children down from JRA-1 and JRA-2; DEV-1 may be an epic
\* without children.
PoolWalk ==
    {LinkRel(o, t, "outwardIssue", Relates) : o \in Keys, t \in Keys} \cup
    {SubtaskRel(pair[1], pair[2]) : pair \in {q \in Keys \X Keys : q[1] # q[2]}} \cup
    {EpicRel("JRA-1", "JRA-2"), EpicRel("JRA-1", "DEV-1"), EpicRel("JRA-2", "DEV-1")}

Init == InitWith({DefaultOptions(<<"JRA-1">>)}, PoolWalk, MaxRelations,
                 AllOpen, ShortSummaries, {{}, {"DEV-1"}})

Spec == Init /\ [][Next]_vars

\* The steps of the traversal.  The program is one thread that runs until it
\* returns or raises: a step of the traversal that can be taken is taken.
Traverse == BuildGraphData \/ Walk \/ GetIssueRaises \/ Recurse \/ Return

FairSpec == Spec /\ WF_vars(Traverse)

\* SpecSeeds: every list of one to MaxSeeds seed keys, the default options.
PoolSeeds ==
    {LinkRel("JRA-1", "JRA-2", "outwardIssue", Relates),
     LinkRel("JRA-2", "JRA-1", "inwardIssue", Relates),
     LinkRel("JRA-2", "DEV-1", "outwardIssue", Blocks),
     SubtaskRel("JRA-1", "DEV-1")}

SeedLists == BoundedSeq(Keys, MaxSeeds) \ {<<>>}

InitSeeds == InitWith({DefaultOptions(issues) : issues \in SeedLists}, PoolSeeds,
                      MaxSeedRelations, AllOpen, ShortSummaries, {{}})

SpecSeeds == InitSeeds /\ [][Next]_vars

\* SpecClosed: --ignore-closed, every issue "Open" or "Closed".
OpenOrClosed == [Keys -> {"Open", "Closed"}]

PoolClosed ==
    {EpicRel("JRA-1", "JRA-2"),
     SubtaskRel("JRA-1", "JRA-2"), SubtaskRel("JRA-1", "DEV-1"), SubtaskRel("JRA-2", "DEV-1"),
     LinkRel("JRA-1", "JRA-2", "outwardIssue", Relates),
     LinkRel("JRA-1", "JRA-2", "inwardIssue", Blocks),
     LinkRel("JRA-1", "DEV-1", "outwardIssue", Blocks),
     LinkRel("JRA-2", "DEV-1", "inwardIssue", Relates),
     LinkRel("JRA-2", "JRA-1", "outwardIssue", Relates)}

InitClosed == InitWith({[DefaultOptions(<<"JRA-1">>) EXCEPT !.closed = TRUE]}, PoolClosed,
                       MaxRelations, OpenOrClosed, ShortSummaries, {{}})

SpecClosed == InitClosed /\ [][Next]_vars

\* SpecStatus: --ignore-closed, with status names around "Closed": the empty
\* name, a proper substring and a proper superstring of it.
StatusNames == {"Open", "Closed", "", "Close", "Closed-Pending"}

NearClosed ==
    {[key \in Keys |-> IF key = "JRA-1" THEN a ELSE IF key = "JRA-2" THEN b ELSE "Open"] :
        a \in StatusNames, b \in StatusNames}

PoolStatus ==
    {SubtaskRel("JRA-1", "JRA-2"),
     LinkRel("JRA-1", "JRA-2", "outwardIssue", Blocks),
     LinkRel("JRA-1", "JRA-2", "inwardIssue", Relates),
     LinkRel("JRA-2", "DEV-1", "outwardIssue", Relates)}

InitStatus == InitWith({[DefaultOptions(<<"JRA-1">>) EXCEPT !.closed = TRUE]}, PoolStatus,
                       MaxStatusRelations, NearClosed, ShortSummaries, {{}})

SpecStatus == InitStatus /\ [][Next]_vars

\* SpecLinks: the options process_link reads, over links of both sides and
\* both types out of JRA-1, a link with neither side, and a link further on.
LinkOptions ==
    {[DefaultOptions(<<"JRA-1">>) EXCEPT !.excludes = ex, !.includes = inc,
                                        !.directions = dirs, !.show_directions = show] :
        ex \in {{}, {"relates to"}, {"blocks"}},
        inc \in {"", "JRA"},
        dirs \in {{"inward", "outward"}, {"outward"}, {"inward"}},
        show \in {{"inward", "outward"}, {"outward"}, {}}}

PoolLinks ==
    {LinkRel("JRA-1", t, side, type) :
        t \in {"JRA-2", "DEV-1"}, side \in {"outwardIssue", "inwardIssue"},
        type \in {Blocks, Relates}} \cup
    {LinkRel("JRA-1", "JRA-2", "", Relates),
     LinkRel("JRA-2", "DEV-1", "outwardIssue", Blocks)}

InitLinks == InitWith(LinkOptions, PoolLinks, MaxLinks, AllOpen, ShortSummaries, {{}})

SpecLinks == InitLinks /\ [][Next]_vars

\* SpecDedup: filter_duplicates on its own, as main applies it after the
\* loop, to every list of up to MaxStatements statements out of three.
SomeStatements ==
    {NodeStatement("JRA-1", [summary |-> "fix"]),
     SubtaskStatement("JRA-1", "JRA-2"),
     LinkStatement("JRA-1", "DEV-1", "blocks", LinkExtra("blocks"))}

InitDedup ==
    /\ options = DefaultOptions(<<"JRA-1">>)
    /\ jira = Tracker(<<>>, [key \in Keys |-> "Open"], [key \in Keys |-> "fix"], {})
    /\ pc = "main"
    /\ i = 2
    /\ graph \in BoundedSeq(SomeStatements, MaxStatements)
    /\ seen = <<>>
    /\ walk_graph = <<>>
    /\ stack = <<>>
    /\ arg = ""
    /\ fetched = <<>>
    /\ queried = <<>>
    /\ output = <<>>
    /\ error = <<>>

SpecDedup == InitDedup /\ [][Render]_vars

\* SpecLabel: the default options, over summaries of every length up to
\* MaxSummary, with and without double quotes in the part that is kept.
\* The summary of JRA-2 is that of JRA-1 without its last character.
SampleText == "fix \"login\" redirect loop after session timeout on mobile"

SampleSummary(from, len) == IF len = 0 THEN "" ELSE SubSeq(SampleText, from, from + len - 1)

SummariesLabel ==
    {[key \in Keys |-> IF key = "JRA-1" THEN SampleSummary(from, len)
                       ELSE IF key = "JRA-2" THEN SampleSummary(from, IF len = 0 THEN 0 ELSE len - 1)
                       ELSE "fix"] :
        from \in {1, 12}, len \in 0..MaxSummary}

PoolLabel ==
    {SubtaskRel("JRA-1", "JRA-2"), LinkRel("JRA-1", "JRA-2", "outwardIssue", Relates)}

InitLabel == InitWith({DefaultOptions(<<"JRA-1">>)}, PoolLabel, MaxLabelRelations,
                      AllOpen, SummariesLabel, {{}})

SpecLabel == InitLabel /\ [][Next]_vars

\* SpecTypes: the default options, over links of both sides out of JRA-1
\* whose per-direction type names are "blocks", differ from it in case, have
\* it as a proper part, or are unrelated to it.
BlocksCapital == [name |-> "Blocks", inward |-> "Is blocked by", outward |-> "Blocks"]
BlocksSoftly  == [name |-> "Soft block", inward |-> "blocks", outward |-> "blocks softly"]

PoolTypes ==
    {LinkRel("JRA-1", t, side, type) :
        t \in {"JRA-2", "DEV-1"}, side \in {"outwardIssue", "inwardIssue"},
        type \in {Blocks, Relates, BlocksCapital, BlocksSoftly}}

InitTypes == InitWith({DefaultOptions(<<"JRA-1">>)}, PoolTypes, MaxTypedLinks,
                      AllOpen, ShortSummaries, {{}})

SpecTypes == InitTypes /\ [][Next]_vars

\* SpecOrder: the default options, one seed, over a tracker of four issues,
\* so that an issue reached through the seed's first child can come before
\* the seed's second child.  The relation entries are of all three kinds,
\* with a way back to the seed.
OrderKeys == Keys \cup {"DEV-2"}

PoolOrder ==
    {SubtaskRel("JRA-1", "DEV-1"),
     LinkRel("JRA-1", "JRA-2", "outwardIssue", Relates),
     EpicRel("JRA-1", "DEV-2"),
     LinkRel("DEV-1", "DEV-2", "outwardIssue", Blocks),
     LinkRel("DEV-1", "JRA-2", "inwardIssue", Relates),
     SubtaskRel("JRA-2", "DEV-2"),
     LinkRel("JRA-2", "DEV-1", "inwardIssue", Blocks),
     LinkRel("DEV-2", "JRA-1", "outwardIssue", Relates)}

InitOrder ==
    /\ options = DefaultOptions(<<"JRA-1">>)
    /\ \E rels \in BoundedSeq(PoolOrder, MaxOrderRelations) :
          /\ \A n \in 1..Len(rels) : rels[n].owner \in ReachFrom({"JRA-1"}, rels)
          /\ LET status  == [key \in OrderKeys |-> "Open"]
                 summary == [key \in OrderKeys |-> "fix"]
                 epics   == {rel.owner : rel \in {r \in Range(rels) : r.kind = "epic"}}
             IN  jira = [issue     |-> [key \in OrderKeys |->
                                           IssueOf(key, rels, status, summary, epics)],
                         epic_link |-> [key \in OrderKeys |-> EpicLinkOf(key, rels)]]
    /\ pc = "main"
    /\ i = 1
    /\ graph = <<>>
    /\ seen = <<>>
    /\ walk_graph = <<>>
    /\ stack = <<>>
    /\ arg = ""
    /\ fetched = <<>>
    /\ queried = <<>>
    /\ output = <<>>
    /\ error = <<>>

SpecOrder == InitOrder /\ [][Next]_vars

\* SpecEpic: with and without --ignore-epic and --ignore-closed, over epics
\* with children (one of them an epic itself, with a way back), an epic
\* without children, and a subtask and a link next to the epic children.
EpicOptions ==
    {[DefaultOptions(<<"JRA-1">>) EXCEPT !.ignore_epic = ignore, !.closed = closed] :
        ignore \in BOOLEAN, closed \in BOOLEAN}

PoolEpic ==
    {EpicRel("JRA-1", "JRA-2"), EpicRel("JRA-1", "DEV-1"),
     EpicRel("JRA-2", "DEV-1"), EpicRel("JRA-2", "JRA-1"),
     SubtaskRel("JRA-1", "JRA-2"),
     LinkRel("JRA-1", "JRA-2", "outwardIssue", Relates)}

InitEpic == InitWith(EpicOptions, PoolEpic, MaxEpicRelations, OpenOrClosed,
                     ShortSummaries, {{}, {"DEV-1"}, {"JRA-1"}})

SpecEpic == InitEpic /\ [][Next]_vars

\* SpecReach: with and without --ignore-closed, an excluded link type and
\* no direction rendered, over open and closed issues related by subtasks,
\* links and an epic.
ReachOptions ==
    {[DefaultOptions(<<"JRA-1">>) EXCEPT !.closed = closed, !.excludes = ex,
                                        !.show_directions = show] :
        closed \in BOOLEAN, ex \in {{}, {"relates to"}}, show \in {{"inward", "outward"}, {}}}

PoolReach ==
    {SubtaskRel("JRA-1", "JRA-2"), SubtaskRel("JRA-2", "DEV-1"),
     EpicRel("JRA-1", "DEV-1"),
     LinkRel("JRA-1", "JRA-2", "outwardIssue", Relates),
     LinkRel("JRA-1", "DEV-1", "inwardIssue", Blocks),
     LinkRel("JRA-2", "DEV-1", "outwardIssue", Relates),
     LinkRel("JRA-2", "JRA-1", "outwardIssue", Blocks)}

InitReach == InitWith(ReachOptions, PoolReach, MaxReachRelations, OpenOrClosed,
                      ShortSummaries, {{}})

SpecReach == InitReach /\ [][Next]_vars

-----------------------------------------------------------------------------
(* Properties.                                                             *)

Count(seq, x) == Cardinality({n \in 1..Len(seq) : seq[n] = x})

Fields(key) == jira.issue[key].fields

\* the keys the expansion of key puts on its children list
Frontier(key) ==
    IF IssueClosed(Fields(key)) THEN {} ELSE Range(WalkChildren(key, Fields(key)))

\* the keys reachable from the keys of S through the frontiers
RECURSIVE FrontierReach(_)
FrontierReach(S) ==
    LET more == S \cup UNION {Frontier(key) : key \in S}
    IN  IF more = S THEN S ELSE FrontierReach(more)

Seeds == Range(options.issues)

\* the loop of main over the seeds is over, or the run has ended
TraversalOver == pc \in {"done", "raised"} \/ (pc = "main" /\ i > Len(options.issues))

\* In one traversal no key is fetched twice, only keys reachable from the
\* seed through the frontiers are fetched, and when the run is done every
\* such key has been fetched exactly once.
ExactlyOnce ==
    /\ \A key \in Keys : Count(fetched, key) <= 1
    /\ Range(fetched) \subseteq FrontierReach(Seeds)
    /\ pc = "done" => \A key \in FrontierReach(Seeds) : Count(fetched, key) = 1

\* C1: one traversal from a seed, over any relation graph (cycles and self
\* links included), fetches every key reachable through the frontier exactly
\* once, and it terminates (walk has returned to main, or a fetch failed and
\* the run ended).
C1_ExactlyOnceAndTerminates == []ExactlyOnce /\ <>TraversalOver

\* a finished traversal of two issues whose frontiers hold each other
C1_CycleTraversed ==
    /\ pc = "done"
    /\ \E a \in Keys, b \in Keys :
          /\ a # b
          /\ b \in Frontier(a)
          /\ a \in Frontier(b)
          /\ {a, b} \subseteq Range(fetched)

NoRepeatedSeed == \A m \in 1..Len(options.issues), n \in 1..Len(options.issues) :
                      options.issues[m] = options.issues[n] => m = n

\* C2: across one invocation with several (distinct) seed keys no issue key
\* is fetched twice: the visited set is shared by the seeds.
C2_NoKeyFetchedTwice ==
    NoRepeatedSeed => \A key \in Keys : Count(fetched, key) <= 1

\* C10: once get_issue has failed, the run is over: the failed fetch is the
\* last one and the renderer has not been and is not invoked.
C10_FetchFailureAborts ==
    (error # <<>> /\ error[1] = "HTTPError") =>
        /\ pc = "raised"
        /\ output = <<>>
        /\ fetched[Len(fetched)] = error[2]

\* get_issue has failed for a later seed, after an earlier seed's traversal
\* was completed and its statements were added to main's graph
C10_LaterSeedFails ==
    /\ error # <<>> /\ error[1] = "HTTPError"
    /\ i = 2
    /\ graph # <<>>

-----------------------------------------------------------------------------
(* The closed checks (SpecClosed, SpecStatus).                             *)

\* the side of a link that is present: "outwardIssue" before "inwardIssue"
LinkSide(link) ==
    IF "outwardIssue" \in DOMAIN link THEN "outwardIssue"
    ELSE IF "inwardIssue" \in DOMAIN link THEN "inwardIssue"
    ELSE ""

Direction(link)    == IF LinkSide(link) = "outwardIssue" THEN "outward" ELSE "inward"
LinkedKey(link)    == link[LinkSide(link)].key
LinkedStatus(link) == link[LinkSide(link)].status
TypeName(link)     == link.type[Direction(link)]

Links(key) == Range(Fields(key).issuelinks)

SubtaskKeys(key) == {sub.key : sub \in Range(Fields(key).subtasks)}
EpicKeys(key)    == {child.key : child \in Range(jira.epic_link[key])}

\* stmt is a statement of the expansion of key: its Node Statement or an
\* edge out of it
StatementOf(key, stmt) ==
    \/ SubSeq(stmt, 1, Len(key) + 2) = "\"" \o key \o "\""
    \/ SubSeq(stmt, 1, Len(key) + 2) = key \o "->"

\* stmt is the Edge Statement of a link from key to linked
LinkEdge(key, linked, stmt) ==
    IsSubstring("\"" \o key \o "\"->\"" \o linked \o "\"[label=", stmt)

\* stmt has the key in it, as a node, a source or a target
Mentions(key, stmt) == IsSubstring(key, stmt)

Statements == Range(graph) \cup Range(walk_graph)

IsClosed(key) == Fields(key).status = "Closed"

\* C3: with ignore-closed, walk on an issue whose status is "Closed" marks
\* the key visited and returns: it appends no statement, issues no epic query
\* and has no children to recurse into; so no statement of a closed issue is
\* ever in a graph list, and no query was made for one.
C3_ClosedIssueCutOff ==
    /\ [][(pc = "walk" /\ pc' = "children" /\ options.closed /\ IsClosed(arg)) =>
            /\ walk_graph' = walk_graph
            /\ queried' = queried
            /\ stack'[Len(stack')].children = <<>>
            /\ arg \in Range(seen')]_vars
    /\ [](options.closed =>
            \A key \in Keys : IsClosed(key) =>
                /\ \A stmt \in Statements : ~StatementOf(key, stmt)
                /\ key \notin Range(queried))

\* walk has just returned from a closed issue that is an epic with a child
\* and has a subtask and a link
C3_ClosedIssueWithChildren ==
    /\ options.closed
    /\ pc = "children"
    /\ LET key == stack[Len(stack)].issue_key
       IN  /\ IsClosed(key)
           /\ key = seen[Len(seen)]
           /\ Fields(key).issuetype = "Epic" /\ EpicKeys(key) # {}
           /\ SubtaskKeys(key) # {}
           /\ Links(key) # {}

\* C4: with ignore-closed, no statement of the list handed to the renderer
\* mentions the key of an issue whose status is "Closed".
C4_NoClosedKeyInOutput ==
    (options.closed /\ pc = "done") =>
        \A key \in Keys : IsClosed(key) =>
            \A stmt \in Range(output[1]) : ~Mentions(key, stmt)

\* the fetched issues walk went on to expand
Expanded == {key \in Range(fetched) : key \in Range(seen) /\ ~IssueClosed(Fields(key))}

\* C5: with ignore-closed, a link in a walk direction whose linked issue is
\* "Closed" gives no frontier entry (the linked key is on the children list
\* only as a subtask or an epic child) and no Edge Statement; a closed issue
\* is fetched only as a seed, a subtask or an epic child.
C5_ClosedLinkTargetIgnored ==
    options.closed =>
        /\ \A n \in 1..Len(stack) :
              LET key == stack[n].issue_key
              IN  \A link \in Links(key) :
                      (/\ LinkSide(link) # ""
                       /\ Direction(link) \in options.directions
                       /\ LinkedStatus(link) = "Closed") =>
                          /\ LinkedKey(link) \in Range(stack[n].children) =>
                                LinkedKey(link) \in SubtaskKeys(key) \cup EpicKeys(key)
                          /\ \A stmt \in Statements : ~LinkEdge(key, LinkedKey(link), stmt)
        /\ \A key \in Range(fetched) :
              IsClosed(key) =>
                  \/ key \in Seeds
                  \/ \E parent \in Range(fetched) :
                        /\ ~IsClosed(parent)
                        /\ key \in SubtaskKeys(parent) \cup EpicKeys(parent)

\* walk has expanded an open issue with an outward link to a closed issue
C5_LinkToClosedSeen ==
    /\ options.closed
    /\ pc = "children"
    /\ LET key == stack[Len(stack)].issue_key
       IN  /\ ~IsClosed(key)
           /\ \E link \in Links(key) :
                 LinkSide(link) = "outwardIssue" /\ LinkedStatus(link) = "Closed"

\* C6: the closed checks match the status text "Closed" exactly: with
\* ignore-closed, a fetched issue of any other status name has its Node
\* Statement, and a link in a walk direction to an issue of any other status
\* name (and with the include filter empty) has its frontier entry.
C6_ClosedIsExactMatch ==
    options.closed =>
        /\ \A key \in Range(seen) :
              ~IsClosed(key) => NodeStatement(key, Fields(key)) \in Range(walk_graph)
        /\ \A n \in 1..Len(stack) :
              LET key == stack[n].issue_key
              IN  ~IsClosed(key) =>
                      \A link \in Links(key) :
                          (/\ LinkSide(link) # ""
                           /\ Direction(link) \in options.directions
                           /\ LinkedStatus(link) # "Closed") =>
                              LinkedKey(link) \in Range(stack[n].children)

-----------------------------------------------------------------------------
(* The deduplicator (SpecDedup) and the link filters (SpecLinks).          *)

\* the statements of lst at the positions of their first occurrence, in order
FirstOccurrences(lst) ==
    LET first == SelectSeq(Enumerate(lst),
                           LAMBDA item : \A m \in 1..item[1] : lst[m] # item[2])
    IN  [n \in 1..Len(first) |-> first[n][2]]

\* C7: filter_duplicates returns, for a non-empty list, its distinct
\* statements, each once, in the order of their first occurrences.
C7_FirstOccurrenceOrder ==
    pc = "done" => output[1] = FirstOccurrences(graph)

\* a list [X, Y, X, Z] whose Y sorts before its X has been deduplicated
C7_RepeatApart ==
    /\ pc = "done"
    /\ Len(graph) = 4
    /\ graph[1] = graph[3]
    /\ graph[2] # graph[1]
    /\ graph[4] \notin {graph[1], graph[2]}
    /\ StrLess(graph[2], graph[1])

\* the link passes the direction, closed and include checks of process_link
Qualifies(link) ==
    /\ LinkSide(link) # ""
    /\ Direction(link) \in options.directions
    /\ ~(options.closed /\ LinkClosed(link))
    /\ IsSubstring(options.includes, LinkedKey(link))

\* stmt is the Edge Statement of a link of that type from key to linked
TypedLinkEdge(key, linked, type_name, stmt) ==
    IsSubstring("\"" \o key \o "\"->\"" \o linked \o "\"[label=\"" \o type_name \o "\"", stmt)

\* C8: a link of an excluded type that passes the direction, closed and
\* include checks puts its linked key on the children list, so that the linked
\* issue is fetched, and no Edge Statement of it is in any graph list or in
\* the list handed to the renderer.
C8_ExcludedLinkKeepsFrontier ==
    /\ \A n \in 1..Len(stack) :
          LET key == stack[n].issue_key
          IN  \A link \in Links(key) :
                  (/\ ~IssueClosed(Fields(key))
                   /\ Qualifies(link)
                   /\ TypeName(link) \in options.excludes) =>
                      /\ LinkedKey(link) \in Range(stack[n].children)
                      /\ \A stmt \in Statements :
                            ~TypedLinkEdge(key, LinkedKey(link), TypeName(link), stmt)
    /\ pc = "done" =>
          \A key \in Expanded : \A link \in Links(key) :
              (Qualifies(link) /\ TypeName(link) \in options.excludes) =>
                  /\ LinkedKey(link) \in Range(fetched)
                  /\ \A stmt \in Range(output[1]) :
                        ~TypedLinkEdge(key, LinkedKey(link), TypeName(link), stmt)

\* a run is done in which the seed had a link of an excluded type to another
\* issue, and a link of another type that gave an Edge Statement
C8_ExcludedLinkWalked ==
    /\ pc = "done"
    /\ \E link \in Links("JRA-1") :
          /\ Qualifies(link)
          /\ TypeName(link) \in options.excludes
          /\ LinkedKey(link) # "JRA-1"
    /\ \E stmt \in Range(output[1]) : \E linked \in Keys : LinkEdge("JRA-1", linked, stmt)

\* C9: with an include substring set, a link whose linked key does not have
\* it gives no frontier entry and no Edge Statement; with the include filter
\* empty, every link that passes the direction and closed checks gives its
\* frontier entry.
C9_IncludeFilter ==
    \A n \in 1..Len(stack) :
        LET key == stack[n].issue_key
        IN  \A link \in Links(key) :
                (LinkSide(link) # "" /\ ~IssueClosed(Fields(key))) =>
                    /\ (/\ options.includes # ""
                        /\ ~IsSubstring(options.includes, LinkedKey(link))) =>
                           /\ LinkedKey(link) \in Range(stack[n].children) =>
                                 LinkedKey(link) \in SubtaskKeys(key) \cup EpicKeys(key)
                           /\ \A stmt \in Statements : ~LinkEdge(key, LinkedKey(link), stmt)
                    /\ (/\ options.includes = ""
                        /\ Direction(link) \in options.directions
                        /\ ~(options.closed /\ LinkClosed(link))) =>
                           LinkedKey(link) \in Range(stack[n].children)

\* with the include substring "JRA", walk has expanded an issue with a link
\* in a walk direction to DEV-1 and one to JRA-2
C9_LinkOutsideInclude ==
    /\ options.includes = "JRA"
    /\ pc = "children"
    /\ LET key == stack[Len(stack)].issue_key
       IN  /\ \E link \in Links(key) :
                 /\ LinkSide(link) # ""
                 /\ Direction(link) \in options.directions
                 /\ LinkedKey(link) = "DEV-1"
           /\ \E link \in Links(key) :
                 /\ LinkSide(link) # ""
                 /\ Direction(link) \in options.directions
                 /\ LinkedKey(link) = "JRA-2"
                 /\ "JRA-2" \in Range(stack[Len(stack)].children)

-----------------------------------------------------------------------------
(* The label formatter (SpecLabel).                                        *)

\* the Node Statement of key whose label shows the summary text shown
NodeWithSummary(key, shown) ==
    "\"" \o key \o "\" [label=\"" \o key \o " (" \o EscapeQuotes(shown) \o ")\"]"

\* C11: in the default mode the Node Statement of an expanded issue shows a
\* summary of at most 32 characters as it is, and of a summary of 33 or more
\* characters the first 30 characters followed by "...".
C11_TruncationThreshold ==
    \A key \in Expanded :
        LET summary == Fields(key).summary
            shown   == IF Len(summary) <= 32 THEN summary
                       ELSE SubSeq(summary, 1, 30) \o "..."
        IN  NodeWithSummary(key, shown) \in Statements

\* a run is done that expanded an issue with a summary of 33 characters and
\* one with a summary of 32 characters
C11_BothSidesOfThreshold ==
    /\ pc = "done"
    /\ {"JRA-1", "JRA-2"} \subseteq Expanded
    /\ Len(Fields("JRA-1").summary) = 33
    /\ Len(Fields("JRA-2").summary) = 32
    /\ Len(output[1]) >= 2

\* C19: whenever the Node Statement of an expanded issue shows a truncated
\* summary (a prefix of the summary followed by "...", other than the summary
\* itself), the text shown is shorter, before quote escaping, than the summary.
C19_TruncationShortens ==
    \A key \in Expanded :
        LET summary == Fields(key).summary
        IN  \A n \in 0..Len(summary) :
                LET shown == SubSeq(summary, 1, n) \o "..."
                IN  (shown # summary /\ NodeWithSummary(key, shown) \in Statements) =>
                        Len(shown) < Len(summary)

-----------------------------------------------------------------------------
(* The Edge Statements of links (SpecTypes).                               *)

\* stmt is the Edge Statement of a link: "source"->"target"[label="..."...]
IsLinkEdge(stmt) == IsSubstring("\"->\"", stmt) /\ IsSubstring("\"[label=\"", stmt)

\* stmt carries the highlight style attribute
Highlighted(stmt) == IsSubstring(",color=\"red\"", stmt)

\* C12: an Edge Statement of a link carries the highlight style attribute
\* (color red) if and only if its label, the per-direction type name of the
\* link, is exactly "blocks"; this holds in every graph list and in the list
\* handed to the renderer.
C12_HighlightIffBlocks ==
    \A stmt \in Statements \cup (IF pc = "done" THEN Range(output[1]) ELSE {}) :
        IsLinkEdge(stmt) =>
            (Highlighted(stmt) <=> IsSubstring("\"[label=\"blocks\"", stmt))

\* a run is done whose output has a highlighted edge and an edge, not
\* highlighted, of a link type with  blocks  as a proper part of its name
C12_BlocksAndNearMiss ==
    /\ pc = "done"
    /\ \E stmt \in Range(output[1]) : IsLinkEdge(stmt) /\ Highlighted(stmt)
    /\ \E stmt \in Range(output[1]) :
          /\ IsLinkEdge(stmt)
          /\ IsSubstring("[label=\"blocks softly\"]", stmt)

-----------------------------------------------------------------------------
(* The order of the traversal (SpecOrder).                                 *)

\* the frontier keys of an issue in the order of their discovery: the epic
\* children, then the subtasks, then the linked keys (every link has a side,
\* every issue is open and the link filters are off in these runs)
DiscoveryOrder(key) ==
    LET fields == Fields(key)
        epic   == IF fields.issuetype = "Epic" /\ ~options.ignore_epic
                  THEN jira.epic_link[key] ELSE <<>>
    IN  [n \in 1..Len(epic) |-> epic[n].key]
        \o [n \in 1..Len(fields.subtasks) |-> fields.subtasks[n].key]
        \o [n \in 1..Len(fields.issuelinks) |-> LinkedKey(fields.issuelinks[n])]

\* the keys in depth-first order: an issue, then for each of its frontier
\* keys in discovery order, if not yet visited then, what is reached from it
RECURSIVE DepthFirst(_, _), DepthFirstAll(_, _)
DepthFirst(key, visited) ==
    IF key \in Range(visited) THEN visited
    ELSE DepthFirstAll(DiscoveryOrder(key), Append(visited, key))
DepthFirstAll(children, visited) ==
    IF children = <<>> THEN visited
    ELSE DepthFirstAll(Tail(children), DepthFirst(Head(children), visited))

IsPrefix(a, b) == Len(a) <= Len(b) /\ SubSeq(b, 1, Len(a)) = a

Position(seq, x) == CHOOSE n \in 1..Len(seq) : seq[n] = x

\* the issue a statement was emitted for: the node's key or the edge's source
SourceKey(stmt) == CHOOSE key \in DOMAIN jira.issue : StatementOf(key, stmt)

\* the place of a statement among those of its issue: the Node Statement,
\* the epic edges, the subtask edges, the link edges
Rank(stmt) ==
    IF IsSubstring("[color=orange]", stmt) THEN 1
    ELSE IF IsSubstring("[color=blue]", stmt) THEN 2
    ELSE IF IsSubstring("\"->\"", stmt) THEN 3
    ELSE 0

\* C13: the issues are fetched in depth-first order, the frontier keys of
\* each in discovery order (epic children, subtasks, links); in the
\* statement list the statements of an issue come Node Statement, epic
\* edges, subtask edges, link edges, and the statements of an issue fetched
\* earlier come before those of every issue fetched later, so a parent's
\* statements precede those of everything reached through it.
C13_DepthFirstParentsFirst ==
    LET order == DepthFirst(options.issues[1], <<>>)
    IN  /\ IsPrefix(fetched, order)
        /\ pc = "done" => fetched = order
        /\ \A m \in 1..Len(walk_graph), n \in 1..Len(walk_graph) :
              m < n =>
                  LET a == SourceKey(walk_graph[m])
                      b == SourceKey(walk_graph[n])
                  IN  /\ a = b => Rank(walk_graph[m]) <= Rank(walk_graph[n])
                      /\ a = b => Rank(walk_graph[n]) # 0
                      /\ a # b => Position(fetched, a) < Position(fetched, b)

\* a run is done in which an issue reached through the seed's first child,
\* and not on the seed's own frontier, was fetched before another frontier
\* key of the seed
C13_GrandchildBeforeSibling ==
    /\ pc = "done"
    /\ Len(fetched) = 4
    /\ fetched[2] \in Range(DiscoveryOrder(fetched[1]))
    /\ fetched[3] \notin Range(DiscoveryOrder(fetched[1]))
    /\ fetched[4] \in Range(DiscoveryOrder(fetched[1]))
    /\ Len(output[1]) >= 7

-----------------------------------------------------------------------------
(* The directions of links (SpecLinks).                                    *)

\* the link gives an Edge Statement: it passes the direction, closed and
\* include checks, its type is not excluded and its direction is rendered
Renders(link) ==
    /\ Qualifies(link)
    /\ TypeName(link) \notin options.excludes
    /\ Direction(link) \in options.show_directions

\* C14: a key is on the children list of an expanded issue exactly if it is
\* a subtask, an epic child, or the linked key of a link whose direction is
\* in the walk directions (and which passes the closed and include checks),
\* rendered or not; the Edge Statement of a link is in the graph list exactly
\* if a link with that target and label has its direction in both the walk
\* and the render directions (and its type is not excluded).  So a link in
\* no walk direction gives neither, and one walked but not rendered gives
\* the frontier entry only.
C14_WalkAndRenderDirections ==
    \A n \in 1..Len(stack) :
        LET key == stack[n].issue_key
        IN  ~IssueClosed(Fields(key)) =>
            /\ \A linked \in Keys :
                  linked \in Range(stack[n].children) <=>
                      \/ linked \in SubtaskKeys(key)
                      \/ QueriesEpic(Fields(key)) /\ linked \in EpicKeys(key)
                      \/ \E link \in Links(key) : Qualifies(link) /\ LinkedKey(link) = linked
            /\ \A link \in Links(key) :
                  LinkSide(link) # "" =>
                      ((\E stmt \in Statements :
                            TypedLinkEdge(key, LinkedKey(link), TypeName(link), stmt))
                       <=> \E other \in Links(key) :
                              /\ Renders(other)
                              /\ LinkedKey(other) = LinkedKey(link)
                              /\ TypeName(other) = TypeName(link))

\* a run is done, walking both directions and rendering the outward one, in
\* which the seed had an inward link to DEV-1, fetched and without an edge,
\* and an outward link to JRA-2 with its edge
C14_WalkedNotRendered ==
    /\ pc = "done"
    /\ options.directions = {"inward", "outward"}
    /\ options.show_directions = {"outward"}
    /\ options.excludes = {}
    /\ \E link \in Links("JRA-1") : LinkSide(link) = "inwardIssue" /\ LinkedKey(link) = "DEV-1"
    /\ \A link \in Links("JRA-1") : LinkSide(link) \in {"inwardIssue", "outwardIssue"}
    /\ \A link \in Links("JRA-1") : LinkedKey(link) = "DEV-1" => LinkSide(link) = "inwardIssue"
    /\ "DEV-1" \in Range(fetched)
    /\ \A stmt \in Range(output[1]) : ~LinkEdge("JRA-1", "DEV-1", stmt)
    /\ \E stmt \in Range(output[1]) : LinkEdge("JRA-1", "JRA-2", stmt)

-----------------------------------------------------------------------------
(* The epic queries (SpecEpic).                                            *)

\* the keys the "Epic Link" query for key returns, in order
EpicChildren(key) == [n \in 1..Len(jira.epic_link[key]) |-> jira.epic_link[key][n].key]

\* stmt is an epic edge out of key
EpicEdgeOf(key, stmt) ==
    StatementOf(key, stmt) /\ IsSubstring("[color=orange]", stmt)

\* C15: in one traversal a key is queried at most once, and a fetched key
\* has been queried exactly if it was not cut off by the closed check, its
\* issue type is "Epic" and ignore-epic is not set; for a queried key every
\* query result has its epic edge key->child in the graph list, as many times
\* as the query returned it and no other epic edge, and its entry on the
\* children list; a key not queried has no epic edge, so that with
\* ignore-epic there is no query and no epic edge at all.
C15_EpicQueryPerExpandedEpic ==
    /\ \A key \in Keys : Count(queried, key) <= 1
    /\ Range(queried) \subseteq Range(seen)
    /\ \A key \in Range(seen) :
          key \in Range(queried) <=>
              /\ ~(options.closed /\ IsClosed(key))
              /\ Fields(key).issuetype = "Epic"
              /\ ~options.ignore_epic
    /\ \A key \in Range(queried) : \A child \in Keys :
          Count(walk_graph, key \o "->" \o child \o "[color=orange]")
              = Count(EpicChildren(key), child)
    /\ \A key \in Keys : \A stmt \in Statements :
          EpicEdgeOf(key, stmt) =>
              /\ key \in Range(queried)
              /\ \E child \in Range(EpicChildren(key)) :
                    stmt = key \o "->" \o child \o "[color=orange]"
    /\ \A n \in 1..Len(stack) :
          stack[n].issue_key \in Range(queried) =>
              Range(EpicChildren(stack[n].issue_key)) \subseteq Range(stack[n].children)
    /\ options.ignore_epic =>
          /\ queried = <<>>
          /\ \A stmt \in Statements : ~IsSubstring("[color=orange]", stmt)

\* a run is done in which an epic and its epic child, an epic too, were
\* queried, and the output has their epic edges
C15_EpicOfEpicQueried ==
    /\ pc = "done"
    /\ Len(queried) >= 2
    /\ queried[1] = "JRA-1"
    /\ queried[2] \in Range(EpicChildren("JRA-1"))
    /\ \A key \in Range(queried) : \E stmt \in Range(output[1]) : EpicEdgeOf(key, stmt)

-----------------------------------------------------------------------------
(* The empty statement list (SpecClosed) and the fetched keys (SpecReach). *)

\* C16: a run in which no fetch fails ends with the renderer invoked with
\* a deduplicated statement list, the empty one included: it does not end
\* with an error.
C16_EmptyListRendered ==
    /\ pc = "raised" => error[1] = "HTTPError"
    /\ (pc = "done" /\ graph = <<>>) => output = << <<>> >>

\* the frontier entries of an issue: none if the closed check cuts it off,
\* else its epic children, its subtasks and the linked key of every link
\* that passes the direction, closed and include checks
FrontierKeys(key) ==
    IF options.closed /\ IsClosed(key) THEN {}
    ELSE (IF Fields(key).issuetype = "Epic" /\ ~options.ignore_epic
          THEN EpicKeys(key) ELSE {})
         \cup SubtaskKeys(key)
         \cup {LinkedKey(link) : link \in {l \in Links(key) : Qualifies(l)}}

RECURSIVE Reachable(_)
Reachable(S) ==
    LET more == S \cup UNION {FrontierKeys(key) : key \in S}
    IN  IF more = S THEN S ELSE Reachable(more)

\* C17: only keys reachable from the seed through the frontier entries of
\* issues that are not cut off are fetched, and when the traversal has
\* ended without a failed fetch every such key has been fetched.
C17_FetchedIsReachable ==
    /\ Range(fetched) \subseteq Reachable({options.issues[1]})
    /\ (TraversalOver /\ ~(error # <<>> /\ error[1] = "HTTPError")) =>
          Range(fetched) = Reachable({options.issues[1]})

\* a traversal has ended in which the seed's link to JRA-2 gave no Edge
\* Statement, JRA-2 was fetched and expanded, and its subtask DEV-1, closed,
\* was fetched and cut off
C17_ThroughEdgelessLink ==
    /\ pc = "main" /\ i = 2
    /\ options.closed
    /\ fetched = <<"JRA-1", "JRA-2", "DEV-1">>
    /\ SubtaskKeys("JRA-1") = {} /\ EpicKeys("JRA-1") = {}
    /\ \A stmt \in Statements : ~LinkEdge("JRA-1", "JRA-2", stmt)
    /\ IsClosed("DEV-1")
    /\ "DEV-1" \in SubtaskKeys("JRA-2")

-----------------------------------------------------------------------------
(* Nodes before edges (Spec).                                              *)

IsEdge(stmt) == IsSubstring("->", stmt)

\* stmt is the Node Statement of key
IsNodeOf(key, stmt) == SubSeq(stmt, 1, Len(key) + 10) = "\"" \o key \o "\" [label="

\* in lst every Edge Statement comes after a Node Statement of its source key
NodesBeforeEdges(lst) ==
    \A n \in 1..Len(lst) :
        IsEdge(lst[n]) => \E m \in 1..(n - 1) : IsNodeOf(SourceKey(lst[n]), lst[m])

\* C18: in the statement list of every state of a traversal (main's list
\* followed by the list of the traversal under way) and in the deduplicated
\* list handed to the renderer, every Edge Statement has a Node Statement of
\* its source key at an earlier position.
C18_SourceNodeBeforeEdge ==
    /\ NodesBeforeEdges(graph \o walk_graph)
    /\ pc = "done" => NodesBeforeEdges(output[1])

\* a run is done whose list had a repeated statement removed and whose
\* output has an epic edge, a subtask edge or link edge out of an issue
\* other than the seed
C18_EdgesAfterDedup ==
    /\ pc = "done"
    /\ Len(output[1]) < Len(graph)
    /\ \E stmt \in Range(output[1]) : IsEdge(stmt) /\ SourceKey(stmt) # options.issues[1]

=============================================================================
